---- MODULE Spec2Model ----
(***************************************************************************)
(* A model of src/data_loader.py: the DataLoader class that turns a        *)
(* driving-simulator log into a dataset (log parsing, side cameras,        *)
(* histogram normalisation, flip augmentation), caches it in a pickle      *)
(* file and serves it as shuffled mini batches.                            *)
(*                                                                         *)
(* Floats are fixed-point integers in units of 1/One (One stands for 1.0). *)
(* A string is a sequence of tokens; a token stands for a run of           *)
(* characters ("/" and "\\" are the two path separators of interest).      *)
(* A numpy array of measurements is a sequence of rows plus its number of  *)
(* dimensions (np.array([]) has one dimension, a non-empty array of        *)
(* triples has two).                                                       *)
(***************************************************************************)
EXTENDS Integers, Sequences, FiniteSets, TLC

VARIABLES
    self,        \* the DataLoader object's configuration fields
    log_file,    \* content of the simulator log: a sequence of csv lines
    train_file,  \* content of the pickle file, or NoFile
    img_folder,  \* names of the files present in the image folder
    imwrites,    \* how often cv2.imwrite has written each file (history)
    call,        \* the last finished call: its name, arguments and outcome
    caller,      \* the arrays the caller handed to generator()
    gen          \* the generator's frame: position, locals, last yield

vars == <<self, log_file, train_file, img_folder, imwrites, call, caller, gen>>

(***************************************************************************)
(* Bounds of the model.                                                    *)
(***************************************************************************)
MaxLines == 2      \* lines in the log
MaxBins == 1       \* bins np.histogram may choose beyond Sturges' count
MaxAngles == 5     \* samples handed to _normalize
MaxSamples == 3    \* samples handed to _flip_images and to generator
MaxBatch == 3      \* batch_size
MaxRuns == 2       \* remembered runs of _flip_images
MaxEpochs == 2     \* value at which the epoch count saturates

One == 100         \* fixed-point unit: the float 1.0

\* An option left at None is <<>> and an option set to x is <<x>>; an outcome
\* that raised nothing has raised = None.
Absent == <<>>
Some(x) == <<x>>
Value(option) == option[1]
None == "None"

Min(a, b) == IF a < b THEN a ELSE b
Max(a, b) == IF a > b THEN a ELSE b
Abs(a) == IF a < 0 THEN -a ELSE a

(***************************************************************************)
(* Strings and csv fields.                                                 *)
(***************************************************************************)
Text(s) == [kind |-> "text", text |-> s, val |-> 0]
Num(v) == [kind |-> "number", text |-> <<>>, val |-> v]

\* str.split(sep)[-1]: what follows the last separator, the whole string
\* when it holds none.
RECURSIVE SplitLast(_, _)
SplitLast(s, sep) ==
    IF \E i \in 1..Len(s) : s[i] = sep
    THEN SplitLast(Tail(s), sep)
    ELSE s

\* float(value): the number a numeric string denotes, ValueError otherwise.
FloatOk(field) == field.kind = "number"
Float(field) == field.val

\* np.clip(x, a_min = -1.0, a_max = 1.0) on one component.
Clip(x) == IF x < -One THEN -One ELSE IF x > One THEN One ELSE x
ClipRow(m) == <<Clip(m[1]), Clip(m[2]), Clip(m[3])>>

\* The outcome of a call: what it raised (None when it returned) and the two
\* parallel arrays it returned.
Returned(images, measurements, ndim) ==
    [raised |-> None, images |-> images, measurements |-> measurements,
     ndim |-> ndim]
Raised(error) ==
    [raised |-> error, images |-> <<>>, measurements |-> <<>>, ndim |-> 0]

(***************************************************************************)
(* DataLoader._parse_line                                                  *)
(***************************************************************************)
\* Python's slice line[a:b] of a list, 0-based and clamped to its length.
Slice(line, a, b) == SubSeq(line, a + 1, Min(b, Len(line)))

_parse_line_clip_angle_only(line, cfg) ==
    LET names == Slice(line, 0, 3)
        values == Slice(line, 3, 6)
    IN  IF Len(names) # 3 \/ Len(values) # 3
           \/ \E i \in 1..Len(values) : ~FloatOk(values[i])
        THEN Raised("ValueError")
        ELSE
          LET img == [i \in 1..3 |-> SplitLast(names[i].text, cfg.path_separator)]
              s == Float(values[1])
              t == Float(values[2])
              b == Float(values[3])
          IN  IF cfg.angle_correction = Absent
              THEN Returned(<<img[1]>>, <<<<s, t, b>>>>, 2)
              ELSE Returned(<<img[1], img[2], img[3]>>,
                            <<<<Clip(s), t, b>>,
                              <<Clip(s + Value(cfg.angle_correction)), t, b>>,
                              <<Clip(s - Value(cfg.angle_correction)), t, b>>>>, 2)

_parse_line(line, cfg) ==
    LET names == Slice(line, 0, 3)
        values == Slice(line, 3, 6)
    IN  IF Len(names) # 3 \/ Len(values) # 3
           \/ \E i \in 1..Len(values) : ~FloatOk(values[i])
        THEN Raised("ValueError")
        ELSE
          LET img == [i \in 1..3 |-> SplitLast(names[i].text, cfg.path_separator)]
              s == Float(values[1])
              t == Float(values[2])
              b == Float(values[3])
              center == <<s, t, b>>
          IN  IF cfg.angle_correction = Absent
              THEN Returned(<<img[1]>>, <<center>>, 2)
              ELSE
                LET left == <<s + Value(cfg.angle_correction), t, b>>
                    right == <<s - Value(cfg.angle_correction), t, b>>
                IN  Returned(<<img[1], img[2], img[3]>>,
                             <<ClipRow(center), ClipRow(left), ClipRow(right)>>, 2)

(***************************************************************************)
(* DataLoader._load_data_log                                               *)
(***************************************************************************)
\* np.array(rows): an empty list gives a one-dimensional array of shape (0,).
NdimOf(rows) == IF Len(rows) = 0 THEN 1 ELSE 2

\* The loop of lines 124-128 over lines k..Len(log), with what lines 1..k-1
\* accumulated; the first line whose parse raises ends it.
RECURSIVE LoadLinesSkipBad(_, _, _, _, _)
LoadLinesSkipBad(log, k, cfg, images, measurements) ==
    IF k > Len(log)
    THEN Returned(images, measurements, NdimOf(measurements))
    ELSE LET r == _parse_line(log[k], cfg)
         IN  IF r.raised # None
             THEN LoadLinesSkipBad(log, k + 1, cfg, images, measurements)
             ELSE LoadLinesSkipBad(log, k + 1, cfg, images \o r.images,
                                   measurements \o r.measurements)

RECURSIVE LoadLines(_, _, _, _, _)
LoadLines(log, k, cfg, images, measurements) ==
    IF k > Len(log)
    THEN Returned(images, measurements, NdimOf(measurements))
    ELSE LET r == _parse_line(log[k], cfg)
         IN  IF r.raised # None
             THEN r
             ELSE LoadLines(log, k + 1, cfg, images \o r.images,
                            measurements \o r.measurements)

_load_data_log(log, cfg) == LoadLines(log, 1, cfg, <<>>, <<>>)

(***************************************************************************)
(* DataLoader._normalize                                                   *)
(***************************************************************************)
RECURSIVE CeilLog2(_)
CeilLog2(n) == IF n <= 1 THEN 0 ELSE 1 + CeilLog2((n + 1) \div 2)

SeqMin(s) == CHOOSE x \in {s[i] : i \in 1..Len(s)} : \A j \in 1..Len(s) : x <= s[j]
SeqMax(s) == CHOOSE x \in {s[i] : i \in 1..Len(s)} : \A j \in 1..Len(s) : x >= s[j]

\* The outer edges np.histogram uses: the data's min and max, widened by 0.5
\* on each side when they coincide, (0, 1) for no data.
OuterEdges(angles) ==
    IF Len(angles) = 0 THEN <<0, One>>
    ELSE LET lo == SeqMin(angles)
             hi == SeqMax(angles)
         IN  IF lo = hi THEN <<lo - One \div 2, hi + One \div 2>> ELSE <<lo, hi>>

\* The numbers of equal-width bins bins = 'auto' may choose: one bin for no
\* data or data of zero range; otherwise the narrower of the Sturges and
\* Freedman-Diaconis widths, hence at least Sturges' ceil(log2(n) + 1) bins.
\* How many more depends on the data's quartiles: any count up to MaxBins more.
BinCounts(angles) ==
    IF Len(angles) = 0 \/ SeqMin(angles) = SeqMax(angles)
    THEN {1}
    ELSE LET sturges == CeilLog2(Len(angles)) + 1
         IN  sturges..(sturges + MaxBins)

\* np.histogram's edges for k bins, each multiplied by k to stay integral:
\* bins[i] = first + (i - 1) * (last - first) / k, for i in 1..k+1.
BinEdges(angles, k) ==
    LET outer == OuterEdges(angles)
    IN  [i \in 1..(k + 1) |-> k * outer[1] + (i - 1) * (outer[2] - outer[1])]

\* np.where of lines 165-169: the indices whose angle lies in bin i (1-based),
\* the last bin including its right edge.
BinMembersHalfOpen(angles, bins, i) ==
    LET k == Len(bins) - 1
    IN  {j \in 1..Len(angles) :
            k * angles[j] >= bins[i] /\ k * angles[j] < bins[i + 1]}

BinMembers(angles, bins, i) ==
    LET k == Len(bins) - 1
    IN  IF i = k
        THEN {j \in 1..Len(angles) :
                k * angles[j] >= bins[i] /\ k * angles[j] <= bins[i + 1]}
        ELSE {j \in 1..Len(angles) :
                k * angles[j] >= bins[i] /\ k * angles[j] < bins[i + 1]}

\* (np.mean(values) * normalize_factor).astype('uint32'): the histogram counts
\* every sample once, so the mean of the k counts is n / k.
MaxWanted(n, k, factor) == (n * factor) \div (k * One)

\* The indices np.random.choice(members, size = excess, replace = False) may
\* return: excess of the members, no index twice.
Choices(members, excess) ==
    {D \in SUBSET members : Cardinality(D) = excess}

\* The index sets lines 163-172 may collect in drop from bins i..k: from each
\* bin holding more than max_wanted, that many too many.
RECURSIVE DropSets(_, _, _, _)
DropSets(angles, bins, max_wanted, i) ==
    IF i > Len(bins) - 1
    THEN {{}}
    ELSE LET members == BinMembers(angles, bins, i)
             here == IF Cardinality(members) > max_wanted
                     THEN Choices(members, Cardinality(members) - max_wanted)
                     ELSE {{}}
             rest == DropSets(angles, bins, max_wanted, i + 1)
         IN  {d \cup r : d \in here, r \in rest}

\* np.delete(arr, drop, axis = 0): the rows whose index is not in drop, in order.
RECURSIVE Delete(_, _, _)
Delete(arr, drop, j) ==
    IF j > Len(arr) THEN <<>>
    ELSE (IF j \in drop THEN <<>> ELSE <<arr[j]>>) \o Delete(arr, drop, j + 1)

Column0(measurements) == [j \in 1..Len(measurements) |-> measurements[j][1]]

\* Every run _normalize may make on (images, measurements), one per choice of
\* bins by np.histogram and of indices by np.random.choice: the bins, and the
\* outcome.
NormalizeRun(bins, out) == [bins |-> bins, out |-> out]

NormalizeRunsImagesOnly(images, measurements, ndim, cfg) ==
    IF ndim # 2
    THEN {NormalizeRun(<<>>, Raised("IndexError"))}
    ELSE LET angles == Column0(measurements)
         IN  UNION {
               LET bins == BinEdges(angles, k)
                   max_wanted == MaxWanted(Len(angles), k,
                                           Value(cfg.normalize_factor))
               IN  {NormalizeRun(bins,
                                 Returned(Delete(images, drop, 1),
                                          measurements, 2)) :
                       drop \in DropSets(angles, bins, max_wanted, 1)}
               : k \in BinCounts(angles)}

NormalizeRuns(images, measurements, ndim, cfg) ==
    IF ndim # 2
    THEN {NormalizeRun(<<>>, Raised("IndexError"))}
    ELSE LET angles == Column0(measurements)
         IN  UNION {
               LET bins == BinEdges(angles, k)
                   max_wanted == MaxWanted(Len(angles), k,
                                           Value(cfg.normalize_factor))
               IN  {NormalizeRun(bins,
                                 Returned(Delete(images, drop, 1),
                                          Delete(measurements, drop, 1), 2)) :
                       drop \in DropSets(angles, bins, max_wanted, 1)}
               : k \in BinCounts(angles)}

_normalize(images, measurements, ndim, cfg) ==
    {run.out : run \in NormalizeRuns(images, measurements, ndim, cfg)}

(***************************************************************************)
(* DataLoader._flip_images                                                 *)
(***************************************************************************)
FlippedName(image) == <<"flipped_">> \o image

\* The test of line 186.
Qualifies(steering_angle, flip_min_angle) ==
    steering_angle >= flip_min_angle \/ steering_angle <= -flip_min_angle

\* The frame of the loop of lines 184-196 before sample j is visited: the new
\* samples so far, the folder's files, the files written, and the error that
\* ended the loop (cv2.flip raises on the None cv2.imread gives for a missing
\* source file).
FlipFrame(new_images, new_measurements, folder, written, raised) ==
    [new_images |-> new_images, new_measurements |-> new_measurements,
     folder |-> folder, written |-> written, raised |-> raised]

FlipOneAlwaysWrite(f, image, measurement, cfg) ==
    IF ~Qualifies(measurement[1], Value(cfg.flip_min_angle))
    THEN f
    ELSE LET img_flipped_name == FlippedName(image)
         IN  IF image \notin f.folder
             THEN [f EXCEPT !.raised = "cv2.error"]
             ELSE [f EXCEPT !.new_images = Append(@, img_flipped_name),
                            !.new_measurements =
                               Append(@, <<-measurement[1], measurement[2],
                                           measurement[3]>>),
                            !.folder = @ \cup {img_flipped_name},
                            !.written = Append(@, img_flipped_name)]

FlipOne(f, image, measurement, cfg) ==
    IF ~Qualifies(measurement[1], Value(cfg.flip_min_angle))
    THEN f
    ELSE LET img_flipped_name == FlippedName(image)
             appended ==
               [f EXCEPT !.new_images = Append(@, img_flipped_name),
                         !.new_measurements =
                            Append(@, <<-measurement[1], measurement[2],
                                        measurement[3]>>)]
         IN  IF img_flipped_name \in f.folder
             THEN appended
             ELSE IF image \notin f.folder
                  THEN [f EXCEPT !.raised = "cv2.error"]
                  ELSE [appended EXCEPT !.folder = @ \cup {img_flipped_name},
                                        !.written = Append(@, img_flipped_name)]

RECURSIVE FlipLoop(_, _, _, _, _)
FlipLoop(f, images, measurements, j, cfg) ==
    IF j > Min(Len(images), Len(measurements)) \/ f.raised # None
    THEN f
    ELSE FlipLoop(FlipOne(f, images[j], measurements[j], cfg),
                  images, measurements, j + 1, cfg)

\* np.append(arr, values, axis = 0) of line 199: np.concatenate refuses arrays
\* of different numbers of dimensions, and an empty list is one-dimensional.
AppendRaises(ndim, values) == NdimOf(values) # ndim

\* What _flip_images does on (images, measurements) in a folder: its outcome,
\* the folder afterwards and the files it wrote.
_flip_images(images, measurements, ndim, cfg, folder) ==
    LET f == FlipLoop(FlipFrame(<<>>, <<>>, folder, <<>>, None),
                      images, measurements, 1, cfg)
    IN  [out |-> IF f.raised # None THEN Raised(f.raised)
                 ELSE IF AppendRaises(ndim, f.new_measurements)
                      THEN Raised("ValueError")
                      ELSE Returned(images \o f.new_images,
                                    measurements \o f.new_measurements, ndim),
         folder |-> f.folder,
         written |-> f.written]

\* The count of writes per file after the files of written were written.
RECURSIVE CountWrites(_, _, _)
CountWrites(counts, written, j) ==
    IF j > Len(written) THEN counts
    ELSE LET name == written[j]
         IN  CountWrites(IF name \in DOMAIN counts
                         THEN [counts EXCEPT ![name] = @ + 1]
                         ELSE counts @@ (name :> 1),
                         written, j + 1)

NoWrites == [name \in {} |-> 0]

(***************************************************************************)
(* DataLoader._process_data                                                *)
(***************************************************************************)
Skipped == Raised("skipped")

\* One run of _process_data: the outcome of each stage (Skipped for a stage not
\* run), the outcome of the whole, the folder afterwards, the files written.
Trace(loaded, normalized, flipped, result, folder, written) ==
    [loaded |-> loaded, normalized |-> normalized, flipped |-> flipped,
     result |-> result, folder |-> folder, written |-> written]

\* The stage that follows data (the last stage's output): _flip_images, when
\* flip_min_angle is set.
FlipStage(loaded, normalized, data, cfg, folder) ==
    IF cfg.flip_min_angle = Absent
    THEN Trace(loaded, normalized, Skipped, data, folder, <<>>)
    ELSE LET r == _flip_images(data.images, data.measurements, data.ndim,
                               cfg, folder)
         IN  Trace(loaded, normalized, r.out, r.out, r.folder, r.written)

\* Every run _process_data may make of a log in a folder.
_process_data(log, cfg, folder) ==
    LET loaded == _load_data_log(log, cfg)
    IN  IF loaded.raised # None
        THEN {Trace(loaded, Skipped, Skipped, loaded, folder, <<>>)}
        ELSE IF cfg.normalize_factor = Absent
        THEN {FlipStage(loaded, Skipped, loaded, cfg, folder)}
        ELSE {IF normalized.raised # None
              THEN Trace(loaded, normalized, Skipped, normalized, folder, <<>>)
              ELSE FlipStage(loaded, normalized, normalized, cfg, folder) :
                 normalized \in _normalize(loaded.images, loaded.measurements,
                                           loaded.ndim, cfg)}

(***************************************************************************)
(* DataLoader._save_pickle, _read_pickle                                   *)
(***************************************************************************)
\* pickle.dump of the dict {'images', 'measurements'}: the arrays with their
\* shape, element for element.
_save_pickle(images, measurements, ndim) ==
    [exists |-> TRUE, images |-> images, measurements |-> measurements,
     ndim |-> ndim]

\* The pickle file before anything was saved.
NoFile == [exists |-> FALSE, images |-> <<>>, measurements |-> <<>>, ndim |-> 0]

\* pickle.load, then train['images'], train['measurements'].
_read_pickle(file) == Returned(file.images, file.measurements, file.ndim)

(***************************************************************************)
(* What the claims say of names, of bounds and of lines                     *)
(***************************************************************************)
\* name is path's last component: what follows path's last separator.
IsBareNameOf(name, path, sep) ==
    \E k \in 0..Len(path) :
        /\ name = SubSeq(path, k + 1, Len(path))
        /\ k = 0 \/ path[k] = sep
        /\ \A i \in 1..Len(name) : name[i] # sep

\* x bounded to [-1, 1].
Bounded(x) == Max(-One, Min(One, x))

SixNumericFields(line) ==
    /\ Len(line) = 6
    /\ \A i \in 4..6 : line[i].kind = "number"

(***************************************************************************)
(* The inputs of the model.                                                *)
(***************************************************************************)
Config(sep, correction, factor, min_angle) ==
    [path_separator |-> sep, angle_correction |-> correction,
     normalize_factor |-> factor, flip_min_angle |-> min_angle]

\* Each option absent or set.
Configs ==
    {Config("\\", c, n, f) :
        c \in {Absent, Some(One \div 10)},
        n \in {Absent, Some(One)},
        f \in {Absent, Some(0), Some((3 * One) \div 10)}}

\* The constructor's defaults (lines 30-33).
DefaultConfig ==
    Config("\\", Some(One \div 10), Some((5 * One) \div 2), Some(0))

NoCall == [op |-> "none"]
NoCaller == [images |-> <<>>, measurements |-> <<>>, ndim |-> 1]
NoGen == [pc |-> "none"]

\* A line the simulator writes for frame n with the given measurements.
FrameLine(n, s, t, b) ==
    <<Text(<<"C:", "\\", "IMG", "\\", "center", n>>),
      Text(<<"C:", "\\", "IMG", "\\", "left", n>>),
      Text(<<"C:", "\\", "IMG", "\\", "right", n>>),
      Num(s), Num(t), Num(b)>>

GoodLines ==
    {FrameLine("1", One \div 2, One \div 5, 0),
     FrameLine("2", 0, (3 * One) \div 2, 0),
     FrameLine("3", -(95 * One) \div 100, One \div 5, One)}

\* A line cut short, and one whose throttle is not a number.
BadLines ==
    {SubSeq(FrameLine("4", 0, 0, 0), 1, 5),
     [FrameLine("5", One \div 2, 0, 0) EXCEPT ![5] = Text(<<"fast">>)]}

LogLines == GoodLines \cup BadLines

\* The camera images the simulator saved for the lines above.
CameraImages ==
    {<<cam, n>> : cam \in {"center", "left", "right"},
                  n \in {"1", "2", "3", "4", "5"}}

(***************************************************************************)
(* DataLoader.load_dataset, and the simulator that records the log         *)
(***************************************************************************)
\* The configurations of the cache's model: the defaults, and one whose
\* normalisation leaves np.random.choice a choice.
CacheConfigs == {DefaultConfig, Config("\\", Absent, Some(One), Absent)}

Init ==
    /\ self \in CacheConfigs
    /\ log_file = <<>>
    /\ train_file = NoFile
    /\ img_folder = CameraImages
    /\ imwrites = NoWrites
    /\ call = NoCall
    /\ caller = NoCaller
    /\ gen = NoGen

\* The simulator appends the line of one more frame to the log.
SimulatorWritesLine ==
    /\ Len(log_file) < MaxLines
    /\ \E line \in LogLines : log_file' = Append(log_file, line)
    /\ UNCHANGED <<self, train_file, img_folder, imwrites, call, caller, gen>>

\* The test of line 59.
MustProcessIfAbsent(regenerate, file) == ~file.exists
MustProcess(regenerate, file) == regenerate \/ ~file.exists

\* A finished call of load_dataset: its argument, the log and whether the
\* pickle file existed when it was made, whether _process_data and _save_pickle ran, and the outcome.
LoadCall(regenerate, log, existed, processed, saved, trace, result) ==
    [op |-> "load_dataset", regenerate |-> regenerate, log |-> log,
     existed |-> existed, processed |-> processed, saved |-> saved,
     trace |-> trace, result |-> result]

NoTrace == Trace(Skipped, Skipped, Skipped, Skipped, {}, <<>>)

load_dataset(regenerate) ==
    IF MustProcess(regenerate, train_file)
    THEN \E tr \in _process_data(log_file, self, img_folder) :
           /\ img_folder' = tr.folder
           /\ imwrites' = CountWrites(imwrites, tr.written, 1)
           /\ train_file' =
                IF tr.result.raised = None
                THEN _save_pickle(tr.result.images, tr.result.measurements,
                                  tr.result.ndim)
                ELSE train_file
           /\ call' = LoadCall(regenerate, log_file, train_file.exists, TRUE,
                            tr.result.raised = None, tr, tr.result)
           /\ UNCHANGED <<self, log_file, caller, gen>>
    ELSE /\ call' = LoadCall(regenerate, log_file, train_file.exists, FALSE,
                             FALSE, NoTrace,
                             _read_pickle(train_file))
         /\ UNCHANGED <<self, log_file, train_file, img_folder, imwrites,
                        caller, gen>>

LoadDataset == \E regenerate \in BOOLEAN : load_dataset(regenerate)

Next ==
    \/ SimulatorWritesLine
    \/ LoadDataset

Spec == Init /\ [][Next]_vars

SameDataset(a, b) ==
    /\ a.images = b.images
    /\ a.measurements = b.measurements
    /\ a.ndim = b.ndim

\* C2: a call of load_dataset runs _process_data iff regenerate is true or
\* the pickle file is absent, and then (when _process_data returns) overwrites
\* the file; otherwise it returns the dataset the file holds and leaves the
\* file as it is. After any call that returns, the file exists and holds the
\* dataset returned.
C2_CacheContract ==
    /\ [](call.op = "load_dataset" =>
            /\ call.processed = (call.regenerate \/ ~call.existed)
            /\ call.saved = (call.processed /\ call.result.raised = None)
            /\ ~call.processed =>
                 /\ call.result.raised = None
                 /\ call.trace = NoTrace
            /\ call.result.raised = None =>
                 /\ train_file.exists
                 /\ SameDataset(train_file, call.result))
    /\ [][(call'.op = "load_dataset" /\ ~call'.saved) =>
             (train_file' = train_file
              /\ (~call'.processed => /\ train_file.exists
                                      /\ SameDataset(call'.result, train_file)
                                      /\ img_folder' = img_folder))]_vars

\* A call that found the pickle file and returned what it held without
\* running _process_data on the two-line log.
C2_Witness ==
    /\ call.op = "load_dataset"
    /\ ~call.regenerate
    /\ call.existed
    /\ ~call.processed
    /\ Len(call.log) = 2
    /\ Len(call.result.images) >= 2
    /\ SameDataset(train_file, call.result)

\* A line with fewer than 6 fields, or whose field 4, 5 or 6 is no number.
BadLine(line) ==
    \/ Len(line) < 6
    \/ \E i \in 4..6 : line[i].kind # "number"

HasBadLine(log) == \E k \in 1..Len(log) : BadLine(log[k])

\* C7 as claimed: if any line of the log is bad, load_dataset returns no
\* dataset and does not write the pickle file.
C7_BadLineFailsLoad ==
    (call.op = "load_dataset" /\ HasBadLine(call.log)) =>
        /\ call.result.raised # None
        /\ ~call.saved

\* C7 as amended: _parse_line raises on a bad line, and a call of load_dataset
\* that runs _process_data (regenerate true or pickle file absent) on a log
\* with a bad line, wherever it is, raises that error, runs no later stage,
\* returns no dataset and leaves the pickle file and the image folder alone.
C7_BadLineFailsBuild ==
    /\ [](\A line \in BadLines : _parse_line(line, self).raised = "ValueError")
    /\ []((/\ call.op = "load_dataset"
           /\ HasBadLine(call.log)
           /\ call.processed) =>
            /\ call.result.raised = "ValueError"
            /\ call.trace.loaded.raised = "ValueError"
            /\ call.trace.normalized = Skipped
            /\ call.trace.flipped = Skipped
            /\ ~call.saved)
    /\ [][(/\ call'.op = "load_dataset"
           /\ HasBadLine(call'.log)
           /\ call'.processed
           /\ call' # call) =>
            (train_file' = train_file /\ img_folder' = img_folder)]_vars

\* A rebuild over an existing pickle file failed on a log whose bad line comes
\* second, and the file still holds the earlier dataset.
C7_Witness ==
    /\ call.op = "load_dataset"
    /\ call.regenerate
    /\ call.existed
    /\ call.processed
    /\ Len(call.log) = 2
    /\ ~BadLine(call.log[1])
    /\ BadLine(call.log[2])
    /\ call.result.raised = "ValueError"
    /\ train_file.exists
    /\ Len(train_file.images) >= 1

(***************************************************************************)
(* _process_data on its own: every configuration, every log                *)
(***************************************************************************)
\* The logs of at most n lines, each taken from lines.
RECURSIVE Logs(_, _)
Logs(n, lines) ==
    IF n = 0 THEN {<<>>}
    ELSE LET shorter == Logs(n - 1, lines)
         IN  shorter \cup {Append(l, line) :
                              l \in {m \in shorter : Len(m) = n - 1},
                              line \in lines}

ProcessLines == GoodLines \cup {SubSeq(FrameLine("4", 0, 0, 0), 1, 5)}

InitProcess ==
    /\ self \in Configs
    /\ log_file \in Logs(MaxLines, ProcessLines)
    /\ train_file = NoFile
    /\ img_folder = CameraImages
    /\ imwrites = NoWrites
    /\ call = NoCall
    /\ caller = NoCaller
    /\ gen = NoGen

ProcessCall(trace) == [op |-> "_process_data", trace |-> trace]

ProcessData ==
    /\ \E tr \in _process_data(log_file, self, img_folder) :
         /\ img_folder' = tr.folder
         /\ imwrites' = CountWrites(imwrites, tr.written, 1)
         /\ call' = ProcessCall(tr)
    /\ UNCHANGED <<self, log_file, train_file, caller, gen>>

NextProcess == ProcessData

SpecProcess == InitProcess /\ [][NextProcess]_vars

\* measurement is what line gives for camera cam (1 centre, 2 left, 3 right)
\* under cfg, and image that camera's file name, or its flipped file's name
\* and the measurement with the angle negated.
DerivedFrom(image, measurement, line, cam, cfg) ==
    /\ SixNumericFields(line)
    /\ LET s == line[4].val
           t == line[5].val
           b == line[6].val
           c == IF cfg.angle_correction = Absent THEN 0
                ELSE cfg.angle_correction[1]
           angle == IF cam = 1 THEN s ELSE IF cam = 2 THEN s + c ELSE s - c
           m == IF cfg.angle_correction = Absent
                THEN <<s, t, b>>
                ELSE <<Bounded(angle), Bounded(t), Bounded(b)>>
       IN  /\ cfg.angle_correction = Absent => cam = 1
           /\ \/ /\ IsBareNameOf(image, line[cam].text, cfg.path_separator)
                 /\ measurement = m
              \/ /\ cfg.flip_min_angle # Absent
                 /\ Len(image) >= 1
                 /\ image[1] = "flipped_"
                 /\ IsBareNameOf(Tail(image), line[cam].text, cfg.path_separator)
                 /\ measurement = <<-m[1], m[2], m[3]>>

\* The two arrays of an outcome have one length, and each image stands beside
\* the measurement of the line and camera it comes from.
Paired(out, log, cfg) ==
    out.raised = None =>
        /\ Len(out.images) = Len(out.measurements)
        /\ \A i \in 1..Len(out.images) :
             \E k \in 1..Len(log), cam \in 1..3 :
                DerivedFrom(out.images[i], out.measurements[i], log[k], cam, cfg)

\* C1: whatever the log and the configuration, the outputs of _parse_line,
\* _load_data_log, _normalize, _flip_images and _process_data have as many
\* images as measurements, and images[i] is the image of the sample that
\* measurements[i] was derived from.
C1_PairingInvariant ==
    call.op = "_process_data" =>
        /\ \A k \in 1..Len(log_file) :
             Paired(_parse_line(log_file[k], self), <<log_file[k]>>, self)
        /\ Paired(call.trace.loaded, log_file, self)
        /\ Paired(call.trace.normalized, log_file, self)
        /\ Paired(call.trace.flipped, log_file, self)
        /\ Paired(call.trace.result, log_file, self)

\* A run in which _normalize dropped samples but not all, and _flip_images
\* then appended some.
C1_Witness ==
    /\ call.op = "_process_data"
    /\ call.trace.normalized.raised = None
    /\ Len(call.trace.normalized.images) < Len(call.trace.loaded.images)
    /\ Len(call.trace.normalized.images) >= 2
    /\ call.trace.flipped.raised = None
    /\ Len(call.trace.flipped.images) > Len(call.trace.normalized.images)
    /\ call.trace.result = call.trace.flipped

(***************************************************************************)
(* _parse_line on its own                                                  *)
(***************************************************************************)
ParseConfigs ==
    {Config(sep, c, Absent, Absent) :
        sep \in {"/", "\\"}, c \in {Absent, Some(0), Some(One \div 10)}}

\* The three camera paths of a line: unix paths, windows paths, and paths with
\* no directory, with a trailing separator, with both separators.
PathTriples ==
    {<<<<"IMG", "/", "c.jpg">>, <<"IMG", "/", "l.jpg">>, <<"IMG", "/", "r.jpg">>>>,
     <<<<"C:", "\\", "IMG", "\\", "c.jpg">>, <<"C:", "\\", "IMG", "\\", "l.jpg">>,
       <<"C:", "\\", "IMG", "\\", "r.jpg">>>>,
     <<<<"c.jpg">>, <<"IMG", "/">>, <<"C:", "\\", "IMG", "/", "r.jpg">>>>}

WellFormedLines ==
    {<<Text(p[1]), Text(p[2]), Text(p[3]), Num(s), Num(t), Num(b)>> :
        p \in PathTriples,
        s \in {0, One \div 2, (95 * One) \div 100, -(95 * One) \div 100},
        t \in {One \div 5, (3 * One) \div 2},
        b \in {0, -(6 * One) \div 5}}

SampleLine ==
    <<Text(<<"IMG", "/", "c.jpg">>), Text(<<"IMG", "/", "l.jpg">>),
      Text(<<"IMG", "/", "r.jpg">>), Num(One \div 2), Num(One \div 5), Num(0)>>

\* The sample line cut short, with a field that is no number, with one field
\* too many.
MalformedLines ==
    {SubSeq(SampleLine, 1, n) : n \in 0..5}
    \cup {[SampleLine EXCEPT ![i] = Text(<<"abc">>)] : i \in 4..6}

ParseLines == WellFormedLines \cup MalformedLines \cup {Append(SampleLine, Num(0))}

InitParse ==
    /\ self \in ParseConfigs
    /\ log_file = <<>>
    /\ train_file = NoFile
    /\ img_folder = {}
    /\ imwrites = NoWrites
    /\ call = NoCall
    /\ caller = NoCaller
    /\ gen = NoGen

ParseCall(line, result) == [op |-> "_parse_line", line |-> line, result |-> result]

ParseLine ==
    /\ \E line \in ParseLines : call' = ParseCall(line, _parse_line(line, self))
    /\ UNCHANGED <<self, log_file, train_file, img_folder, imwrites, caller, gen>>

NextParse == ParseLine

SpecParse == InitParse /\ [][NextParse]_vars

\* C6: for a 6-field line with steering s, throttle t, brake b, _parse_line
\* returns, with angle_correction c set, the bare file names of the centre,
\* left and right paths with (s, t, b), (s + c, t, b), (s - c, t, b), every
\* component of the three bounded to [-1, 1]; with angle_correction absent,
\* the centre name alone with (s, t, b) as read.
C6_ParserResult ==
    (call.op = "_parse_line" /\ SixNumericFields(call.line)) =>
        LET line == call.line
            r == call.result
            s == line[4].val
            t == line[5].val
            b == line[6].val
        IN  /\ r.raised = None
            /\ IF self.angle_correction = Absent
               THEN /\ Len(r.images) = 1
                    /\ r.measurements = <<<<s, t, b>>>>
               ELSE LET c == self.angle_correction[1]
                    IN  /\ Len(r.images) = 3
                        /\ r.measurements =
                             <<<<Bounded(s), Bounded(t), Bounded(b)>>,
                               <<Bounded(s + c), Bounded(t), Bounded(b)>>,
                               <<Bounded(s - c), Bounded(t), Bounded(b)>>>>
            /\ \A i \in 1..Len(r.images) :
                 IsBareNameOf(r.images[i], line[i].text, self.path_separator)

\* A line whose throttle, brake and corrected angle all leave [-1, 1] was
\* parsed with the correction set.
C6_Witness ==
    /\ call.op = "_parse_line"
    /\ SixNumericFields(call.line)
    /\ self.angle_correction = Some(One \div 10)
    /\ call.line[4].val + One \div 10 > One
    /\ call.line[5].val > One
    /\ call.line[6].val < -One
    /\ call.result.measurements[2] = <<One, One, -One>>
    /\ call.result.images = <<<<"c.jpg">>, <<"l.jpg">>, <<"r.jpg">>>>

(***************************************************************************)
(* _normalize on its own                                                   *)
(***************************************************************************)
NormalizeConfigs ==
    {Config("\\", Absent, Some(f), Absent) :
        f \in {One \div 2, One, (5 * One) \div 2}}

ImageName(i) == <<"img", ToString(i)>>

\* The datasets of n samples with the given steering angles.
AngleSets(n, values) ==
    {[images |-> [i \in 1..n |-> ImageName(i)],
      measurements |-> [i \in 1..n |-> <<a[i], One \div 5, 0>>],
      ndim |-> IF n = 0 THEN 1 ELSE 2] : a \in [1..n -> values]}

NormalizeInputs ==
    UNION {AngleSets(n, {-(One \div 2), 0, One \div 10}) : n \in 0..MaxAngles}

\* A call about to be made on input.
Pending(input) == [op |-> "pending", input |-> input]

InitNormalize ==
    /\ self \in NormalizeConfigs
    /\ log_file = <<>>
    /\ train_file = NoFile
    /\ img_folder = {}
    /\ imwrites = NoWrites
    /\ call \in {Pending(input) : input \in NormalizeInputs}
    /\ caller = NoCaller
    /\ gen = NoGen

NormalizeCall(input, run) ==
    [op |-> "_normalize", input |-> input, bins |-> run.bins, result |-> run.out]

Normalize ==
    /\ call.op = "pending"
    /\ \E run \in NormalizeRuns(call.input.images, call.input.measurements,
                                 call.input.ndim, self) :
         call' = NormalizeCall(call.input, run)
    /\ UNCHANGED <<self, log_file, train_file, img_folder, imwrites, caller, gen>>

NextNormalize == Normalize

SpecNormalize == InitNormalize /\ [][NextNormalize]_vars

\* The number of rows of measurements whose angle lies in bin i of bins (the
\* edges, each multiplied by the number of bins): left edge <= angle < right
\* edge, the last bin closed on the right.
BinCount(measurements, bins, i) ==
    LET k == Len(bins) - 1
    IN  Cardinality({j \in 1..Len(measurements) :
            /\ bins[i] <= k * measurements[j][1]
            /\ IF i = k THEN k * measurements[j][1] <= bins[i + 1]
                        ELSE k * measurements[j][1] < bins[i + 1]})

RECURSIVE SumBinCounts(_, _, _)
SumBinCounts(measurements, bins, i) ==
    IF i = 0 THEN 0
    ELSE BinCount(measurements, bins, i) + SumBinCounts(measurements, bins, i - 1)

\* floor(mean(bin counts) * factor)
ClaimedMaxWanted(measurements, bins, factor) ==
    LET k == Len(bins) - 1
    IN  (SumBinCounts(measurements, bins, k) * factor) \div (k * One)

\* C5: after _normalize every bin holds exactly min(its input count,
\* max_wanted) samples, max_wanted being floor(mean(input bin counts) *
\* normalize_factor).
C5_NormalizerBound ==
    (call.op = "_normalize" /\ call.result.raised = None) =>
        LET before == call.input.measurements
            after == call.result.measurements
            max_wanted == ClaimedMaxWanted(before, call.bins,
                                           self.normalize_factor[1])
        IN  \A i \in 1..(Len(call.bins) - 1) :
               BinCount(after, call.bins, i)
                 = Min(BinCount(before, call.bins, i), max_wanted)

\* A run that cut one bin down to a max_wanted of at least one and left
\* another, non-empty bin alone, the cut bin being the last one.
C5_Witness ==
    /\ call.op = "_normalize"
    /\ call.result.raised = None
    /\ LET before == call.input.measurements
           after == call.result.measurements
           k == Len(call.bins) - 1
           max_wanted == ClaimedMaxWanted(before, call.bins,
                                          self.normalize_factor[1])
       IN  /\ max_wanted >= 1
           /\ k >= 2
           /\ BinCount(before, call.bins, k) > max_wanted
           /\ BinCount(after, call.bins, k) = max_wanted
           /\ \E i \in 1..(k - 1) :
                /\ BinCount(before, call.bins, i) >= 1
                /\ BinCount(after, call.bins, i) = BinCount(before, call.bins, i)

(***************************************************************************)
(* _flip_images on its own, run again and again on one image folder        *)
(***************************************************************************)
FlipConfigs ==
    {Config("\\", Absent, Absent, Some(f)) : f \in {0, (3 * One) \div 10}}

FlipSamples ==
    {<<image, <<s, One \div 5, 0>>>> :
        image \in {<<"a.jpg">>, <<"b.jpg">>},
        s \in {0, One \div 2, -(3 * One) \div 10}}

\* The datasets of n of the samples above, and the two empty arrays.
FlipSets(n) ==
    {[images |-> [i \in 1..n |-> d[i][1]],
      measurements |-> [i \in 1..n |-> d[i][2]],
      ndim |-> 2] : d \in [1..n -> FlipSamples]}

FlipInputs ==
    UNION {FlipSets(n) : n \in 0..MaxSamples}
    \cup {[images |-> <<>>, measurements |-> <<>>, ndim |-> 1]}

\* An image folder: both sources, a flipped file left by an earlier session,
\* a source gone, a source gone whose flipped file stayed.
FlipFolders ==
    {{<<"a.jpg">>, <<"b.jpg">>},
     {<<"a.jpg">>, <<"b.jpg">>, FlippedName(<<"a.jpg">>)},
     {<<"a.jpg">>},
     {<<"a.jpg">>, FlippedName(<<"b.jpg">>)}}

InitFlip ==
    /\ self \in FlipConfigs
    /\ log_file = <<>>
    /\ train_file = NoFile
    /\ img_folder \in FlipFolders
    /\ imwrites = NoWrites
    /\ call \in {Pending(input) : input \in FlipInputs}
    /\ caller = NoCaller
    /\ gen = NoGen

\* The runs of _flip_images so far on one input: how many (counted up to
\* MaxRuns), the outcome of the first and of the last, and the folder before
\* and the files written by the last.
FlipCall(input, runs, first, last, before, written) ==
    [op |-> "_flip_images", input |-> input, runs |-> runs, first |-> first,
     last |-> last, before |-> before, written |-> written]

FlipImages ==
    /\ call.op \in {"pending", "_flip_images"}
    /\ LET input == call.input
           r == _flip_images(input.images, input.measurements, input.ndim,
                             self, img_folder)
       IN  /\ img_folder' = r.folder
           /\ imwrites' = CountWrites(imwrites, r.written, 1)
           /\ call' = IF call.op = "pending"
                      THEN FlipCall(input, 1, r.out, r.out, img_folder, r.written)
                      ELSE FlipCall(input, Min(call.runs + 1, MaxRuns),
                                    call.first, r.out, img_folder, r.written)
    /\ UNCHANGED <<self, log_file, train_file, caller, gen>>

NextFlip == FlipImages

SpecFlip == InitFlip /\ [][NextFlip]_vars

\* The samples 1..j of measurements with |steering_angle| >= min_angle.
QualifyingUpTo(measurements, min_angle, j) ==
    {i \in 1..j : Abs(measurements[i][1]) >= min_angle}

\* C4: over the runs of _flip_images on one image folder, a derived file is
\* written at most once, only when it does not exist yet, and not at all by
\* a later run; every run that returns appends one flipped sample per
\* qualifying sample, and every run has the outcome of the first.
C4_FlipCacheIdempotent ==
    call.op = "_flip_images" =>
        /\ \A name \in DOMAIN imwrites : imwrites[name] = 1
        /\ \A j \in 1..Len(call.written) :
             /\ call.written[j] \notin call.before
             /\ \A i \in 1..(j - 1) : call.written[i] # call.written[j]
        /\ call.runs >= 2 => (call.written = <<>> /\ call.last = call.first)
        /\ call.last.raised = None =>
             Len(call.last.images) =
               Len(call.input.images)
               + Cardinality(QualifyingUpTo(call.input.measurements,
                                            self.flip_min_angle[1],
                                            Len(call.input.measurements)))

\* A second run over a dataset naming a.jpg twice, both times qualifying: the
\* first run wrote flipped_a.jpg once, the second appended both samples again.
C4_Witness ==
    /\ call.op = "_flip_images"
    /\ call.runs >= 2
    /\ Len(call.input.images) >= 2
    /\ call.input.images[1] = <<"a.jpg">>
    /\ call.input.images[2] = <<"a.jpg">>
    /\ QualifyingUpTo(call.input.measurements, self.flip_min_angle[1], 2) = {1, 2}
    /\ FlippedName(<<"a.jpg">>) \in DOMAIN imwrites
    /\ imwrites[FlippedName(<<"a.jpg">>)] = 1
    /\ call.last.raised = None
    /\ Len(call.last.images) >= Len(call.input.images) + 2

\* The samples _flip_images is to append for samples j..n, in input order.
RECURSIVE ExpectedFlips(_, _, _)
ExpectedFlips(input, min_angle, j) ==
    IF j > Len(input.images)
    THEN [images |-> <<>>, measurements |-> <<>>]
    ELSE LET rest == ExpectedFlips(input, min_angle, j + 1)
             m == input.measurements[j]
         IN  IF Abs(m[1]) >= min_angle
             THEN [images |-> <<<<"flipped_">> \o input.images[j]>> \o rest.images,
                   measurements |-> <<<<-m[1], m[2], m[3]>>>> \o rest.measurements]
             ELSE rest

\* Every file a run has to read is there: for each qualifying sample, its
\* flipped file or its source.
FlipSourcesPresent ==
    \A j \in QualifyingUpTo(call.input.measurements, self.flip_min_angle[1],
                            Len(call.input.measurements)) :
        \/ call.input.images[j] \in call.before
        \/ FlippedName(call.input.images[j]) \in call.before

\* C8: the output of _flip_images (on a dataset of at least one sample whose
\* files are there) is its input, unchanged and in order, followed by one
\* sample per input sample with |steering_angle| >= flip_min_angle, in input
\* order, named 'flipped_' + name and measuring (-steering_angle, throttle,
\* brake); samples below flip_min_angle contribute nothing, and
\* flip_min_angle = 0 doubles the dataset.
C8_FlipAppendsExactly ==
    (/\ call.op = "_flip_images"
     /\ Len(call.input.images) >= 1
     /\ FlipSourcesPresent) =>
        LET expected == ExpectedFlips(call.input, self.flip_min_angle[1], 1)
        IN  /\ call.last.raised = None
            /\ call.last.images = call.input.images \o expected.images
            /\ call.last.measurements
                 = call.input.measurements \o expected.measurements
            /\ self.flip_min_angle[1] = 0 =>
                 Len(call.last.images) = 2 * Len(call.input.images)

(***************************************************************************)
(* DataLoader.generator and DataLoader._load_image                         *)
(***************************************************************************)
\* cv2.imread: the file's pixels, None for a file that is not there.
imread(folder, image_file) ==
    IF image_file \in folder THEN <<"pixels">> \o image_file ELSE <<None>>

\* image_processor.process_image, the external transform of a loaded image.
process_image(img) == <<"processed">> \o img

_load_image(folder, image_file) == process_image(imread(folder, image_file))

\* sklearn.utils.shuffle(images, measurements): new arrays, rows
\* perm[1], perm[2], ... of each.
Permute(arr, perm) == [i \in 1..Len(arr) |-> arr[perm[i]]]

\* The test of range(0, num_samples, batch_size) for one more offset.
InRangeFullBatch(offset, num_samples, batch_size) ==
    offset + batch_size <= num_samples
InRange(offset, num_samples, batch_size) == offset < num_samples

\* The frame of a generator object whose body has not started: its
\* parameters (given keeps what the caller handed over), its locals, and what
\* it has yielded in the current epoch.
NewFrame(given, batch_size) ==
    [pc |-> "created", given |-> given, images |-> given.images,
     measurements |-> given.measurements, batch_size |-> batch_size,
     num_samples |-> 0, offset |-> 0, epoch |-> 0, epoch_batches |-> <<>>,
     X_batch |-> <<>>, Y_batch |-> <<>>]

\* The datasets handed to generator: n samples of distinct images, and one
\* whose arrays differ in length.
GenSets(n) ==
    {[images |-> [i \in 1..n |-> ImageName(i)],
      measurements |-> [i \in 1..n |-> <<a[i], One \div 5, 0>>],
      ndim |-> IF n = 0 THEN 1 ELSE 2] : a \in [1..n -> {0, One \div 2}]}

GenInputs ==
    UNION {GenSets(n) : n \in 0..MaxSamples}
    \cup {[images |-> <<ImageName(1), ImageName(2)>>,
           measurements |-> <<<<0, 0, 0>>>>, ndim |-> 2]}

InitGen ==
    /\ self = DefaultConfig
    /\ log_file = <<>>
    /\ train_file = NoFile
    /\ img_folder = {ImageName(i) : i \in 1..(MaxSamples + 1)}
    /\ imwrites = NoWrites
    /\ call = NoCall
    /\ caller \in GenInputs
    /\ gen = NoGen

\* generator(images, measurements, batch_size) is called: a generator object
\* whose body has not started, its parameters bound to the caller's arrays.
generator(batch_size) ==
    /\ gen.pc = "none"
    /\ gen' = NewFrame(caller, batch_size)
    /\ UNCHANGED <<self, log_file, train_file, img_folder, imwrites, call, caller>>

Generator == \E batch_size \in 1..MaxBatch : generator(batch_size)

\* The consumer pulls on a generator not yet started: lines 71-73.
PullFirst ==
    /\ gen.pc = "created"
    /\ gen' = IF Len(gen.images) = Len(gen.measurements)
              THEN [gen EXCEPT !.pc = "while", !.num_samples = Len(gen.images)]
              ELSE [gen EXCEPT !.pc = "raised", !.num_samples = Len(gen.images)]
    /\ UNCHANGED <<self, log_file, train_file, img_folder, imwrites, call, caller>>

\* The consumer pulls on a generator suspended at its yield: the for loop
\* moves on to its next offset.
PullNext ==
    /\ gen.pc = "yield"
    /\ gen' = [gen EXCEPT !.pc = "for", !.offset = @ + gen.batch_size]
    /\ UNCHANGED <<self, log_file, train_file, img_folder, imwrites, call, caller>>

\* Line 76, then the start of the for loop: an epoch begins.
ShuffleInPlace ==
    /\ gen.pc = "while"
    /\ \E perm \in Permutations(1..gen.num_samples) :
         /\ gen' = [gen EXCEPT !.pc = "for",
                               !.images = Permute(@, perm),
                               !.measurements = Permute(@, perm),
                               !.offset = 0,
                               !.epoch = Min(@ + 1, MaxEpochs),
                               !.epoch_batches = <<>>]
         /\ caller' = [caller EXCEPT !.images = Permute(gen.images, perm),
                                     !.measurements = Permute(gen.measurements, perm)]
    /\ UNCHANGED <<self, log_file, train_file, img_folder, imwrites, call>>

Shuffle ==
    /\ gen.pc = "while"
    /\ \E perm \in Permutations(1..gen.num_samples) :
         gen' = [gen EXCEPT !.pc = "for",
                            !.images = Permute(@, perm),
                            !.measurements = Permute(@, perm),
                            !.offset = 0,
                            !.epoch = Min(@ + 1, MaxEpochs),
                            !.epoch_batches = <<>>]
    /\ UNCHANGED <<self, log_file, train_file, img_folder, imwrites, call, caller>>

\* Lines 77-84 for one offset: the batch is built and yielded, or the range
\* is exhausted and control returns to the while loop.
ForStep ==
    /\ gen.pc = "for"
    /\ IF InRange(gen.offset, gen.num_samples, gen.batch_size)
       THEN LET images_batch ==
                  Slice(gen.images, gen.offset, gen.offset + gen.batch_size)
                measurements_batch ==
                  Slice(gen.measurements, gen.offset, gen.offset + gen.batch_size)
                X_batch == [i \in 1..Len(images_batch) |->
                              _load_image(img_folder, images_batch[i])]
                Y_batch == Column0(measurements_batch)
            IN  gen' = [gen EXCEPT !.pc = "yield",
                                   !.X_batch = X_batch,
                                   !.Y_batch = Y_batch,
                                   !.epoch_batches =
                                      Append(@, [X |-> X_batch, Y |-> Y_batch])]
       ELSE gen' = [gen EXCEPT !.pc = "while"]
    /\ UNCHANGED <<self, log_file, train_file, img_folder, imwrites, call, caller>>

NextGen ==
    \/ Generator
    \/ PullFirst
    \/ PullNext
    \/ Shuffle
    \/ ForStep

SpecGen == InitGen /\ [][NextGen]_vars

\* Once pulled, the generator's body runs on until it yields or raises; whether
\* and when to pull is the consumer's choice.
FairSpecGen == SpecGen /\ WF_vars(Shuffle) /\ WF_vars(ForStep)

CeilDiv(n, b) == (n + b - 1) \div b

\* The places (batch, position) of the epoch's batches so far that hold the
\* loaded image and the steering angle of sample j of the caller's dataset.
PlacesOf(j) ==
    {p \in {<<k, i>> : k \in 1..Len(gen.epoch_batches), i \in 1..MaxBatch + 1} :
        /\ p[2] <= Len(gen.epoch_batches[p[1]].X)
        /\ p[2] <= Len(gen.epoch_batches[p[1]].Y)
        /\ gen.epoch_batches[p[1]].X[p[2]]
             = _load_image(img_folder, gen.given.images[j])
        /\ gen.epoch_batches[p[1]].Y[p[2]] = gen.given.measurements[j][1]}

\* C3: with n samples and batch_size b >= 1 the generator never ends or
\* raises; the batches of an epoch are of size b, but for a last one of size
\* n mod b when b does not divide n; no sample is in two places of an epoch;
\* and when the epoch's range is exhausted it has yielded ceil(n / b) batches
\* holding every (image, steering angle) pair in exactly one place.
C3_GeneratorEpochs ==
    (/\ gen.pc # "none"
     /\ Len(gen.given.images) = Len(gen.given.measurements)) =>
        LET n == Len(gen.given.images)
            b == gen.batch_size
            batches == gen.epoch_batches
        IN  /\ gen.pc \in {"created", "while", "for", "yield"}
            /\ Len(batches) <= CeilDiv(n, b)
            /\ \A k \in 1..Len(batches) :
                 /\ Len(batches[k].X) = IF k * b <= n THEN b ELSE n % b
                 /\ Len(batches[k].X) >= 1
                 /\ Len(batches[k].Y) = Len(batches[k].X)
            /\ \A j \in 1..n : Cardinality(PlacesOf(j)) <= 1
            /\ (gen.pc = "while" /\ gen.epoch >= 1) =>
                 /\ Len(batches) = CeilDiv(n, b)
                 /\ \A j \in 1..n : Cardinality(PlacesOf(j)) = 1

\* In a second epoch over three samples in batches of two, the short last
\* batch has just been yielded.
C3_Witness ==
    /\ gen.pc = "yield"
    /\ gen.epoch >= 2
    /\ gen.num_samples = 3
    /\ gen.batch_size = 2
    /\ Len(gen.epoch_batches) = 2
    /\ Len(gen.epoch_batches[1].X) = 2
    /\ Len(gen.epoch_batches[2].X) = 1
    /\ Len(gen.Y_batch) = 1

\* C9: whatever the generator has done, the caller's images and measurements
\* are those it handed over, in the same order.
C9_CallerArraysUntouched ==
    gen.pc # "none" => caller = gen.given

\* In a second epoch the generator holds an ordering that differs from the
\* caller's.
C9_Witness ==
    /\ gen.pc = "yield"
    /\ gen.epoch >= 2
    /\ gen.images # caller.images
    /\ gen.measurements # caller.measurements
    /\ caller = gen.given

\* C10: every pull on the generator eventually returns a batch: once its body
\* runs, the generator reaches its yield.
C10_PullReturnsBatch ==
    (gen.pc \in {"while", "for"}) ~> (gen.pc = "yield")

====
